---- MODULE Spec2Model ----
(***************************************************************************)
(* Model of the /compare pipeline of main.py: save_upload, convert_to_wav, *)
(* compare_wavs, analyze_audio, rate_suspicion and the compare route with  *)
(* its try/finally cleanup.                                                *)
(*                                                                         *)
(* Numbers that are floats in the program are exact rationals here         *)
(* (records num/den with den > 0, plus a NaN marker); comparisons are done *)
(* by cross-multiplication, so thresholds are compared exactly.            *)
(***************************************************************************)
EXTENDS Integers, Sequences, FiniteSets

VARIABLES
    req,        \* number of the request being served (0 = none yet)
    pc,         \* position inside compare()
    cur,        \* which sample (1 or 2) the current helper call works on
    upload,     \* upload[i]: byte length of the body of file i
    pos,        \* bytes of the current upload already read (upload.file position)
    size,       \* save_upload: running total `size`
    written,    \* save_upload: bytes written to tmp so far
    tmp,        \* save_upload: tmp.name
    out,        \* convert_to_wav: out.name
    p1, p2, w1, w2,   \* compare(): the four locals, NoFile = None
    disk,       \* temporary files that exist on disk
    proc,       \* state of the ffmpeg child process of the current request
    decode,     \* how the last subprocess.run of the request ended
    err,        \* exception propagating out of compare()
    emb,        \* compare_wavs: << >> or <<emb1, emb2>>
    y,          \* analyze_audio: << >> or <<the clip librosa.load returned>>
    score,      \* compare(): << >> or <<score>>
    analysis1,  \* compare(): << >> or <<analysis>>
    analysis2,
    response,   \* "none" or "json": the JSONResponse returned
    steps       \* the calls compare() has made in this request, in order

vars == <<req, pc, cur, upload, pos, size, written, tmp, out, p1, p2, w1, w2,
          disk, proc, decode, err, emb, y, score, analysis1, analysis2,
          response, steps>>

----------------------------------------------------------------------------
(* Bounds of the model *)

\* number of /compare requests served one after the other
MaxRequests == 2
\* the largest upload body is the size limit plus this many full chunks
ExtraChunks == 2
\* number of PCM samples of a non-empty decoded clip
ClipSamples == 20

----------------------------------------------------------------------------
(* Program constants *)

MAX_UPLOAD_MB == 20
SAMPLE_RATE == 16000

MaxUploadBytes == MAX_UPLOAD_MB * 1024 * 1024
ReadChunkBytes == 1024 * 1024

Min(a, b) == IF a < b THEN a ELSE b

----------------------------------------------------------------------------
(* Rationals standing for the program's floats *)

RECURSIVE Gcd(_, _)
Gcd(a, b) == IF b = 0 THEN a ELSE Gcd(b, a % b)
Abs(a) == IF a < 0 THEN -a ELSE a

\* the rational n/d (d > 0) in lowest terms
R(n, d) == LET g == Gcd(Abs(n), d)
           IN [nan |-> FALSE, num |-> n \div g, den |-> d \div g]
NaN == [nan |-> TRUE, num |-> 0, den |-> 1]
Zero == R(0, 1)
One == R(1, 1)

\* a < b as an IEEE comparison: false when either side is NaN
RLt(a, b) == ~a.nan /\ ~b.nan /\ a.num * b.den < b.num * a.den
RGt(a, b) == RLt(b, a)
RAdd(a, b) == IF a.nan \/ b.nan THEN NaN
              ELSE R(a.num * b.den + b.num * a.den, a.den * b.den)
RSub(a, b) == IF a.nan \/ b.nan THEN NaN
              ELSE R(a.num * b.den - b.num * a.den, a.den * b.den)
\* a / b for b > 0
RDiv(a, b) == IF a.nan \/ b.nan THEN NaN
              ELSE R(a.num * b.den, a.den * b.num)

----------------------------------------------------------------------------
(* Temporary files *)

File(r, tag) == [req |-> r, tag |-> tag]
NoFile == File(0, "None")

----------------------------------------------------------------------------
(* rate_suspicion *)

\* the thresholds 0.4, 0.95, 10 and 1e-5 of rate_suspicion
RatioLow == R(40, 100)
RatioHigh == R(95, 100)
PitchMin == R(10, 1)
EnergyMin == R(1, 100000)

FlagRatio == "Unnatural speech/pause ratio"
FlagPitch == "Monotone pitch (possible synthetic)"
FlagEnergy == "Flat energy (possible normalization)"

RatioRule(m) == RLt(m.speech_ratio, RatioLow) \/ RGt(m.speech_ratio, RatioHigh)
\* PitchRule with <= in place of <
PitchRuleInclusive(m) == ~RGt(m.pitch_variation, R(10, 1)) /\ ~m.pitch_variation.nan
PitchRule(m) == RLt(m.pitch_variation, PitchMin)
EnergyRule(m) == RLt(m.energy_variation, EnergyMin)

\* flags = []; three independent ifs, each appending its flag
Flags(m) ==
    LET f1 == IF RatioRule(m) THEN <<FlagRatio>> ELSE << >>
        f2 == IF PitchRule(m) THEN Append(f1, FlagPitch) ELSE f1
        f3 == IF EnergyRule(m) THEN Append(f2, FlagEnergy) ELSE f2
    IN  f3

\* Level with the last branch taken for exactly two flags only
LevelExactlyTwo(flags) ==
    IF Len(flags) = 0 THEN "Low"
    ELSE IF Len(flags) = 2 THEN "High"
    ELSE "Medium"

\* if len(flags) == 0 / elif len(flags) == 1 / else
Level(flags) ==
    IF Len(flags) = 0 THEN "Low"
    ELSE IF Len(flags) = 1 THEN "Medium"
    ELSE "High"

rate_suspicion(m) == [suspicion |-> Level(Flags(m)), flags |-> Flags(m)]

----------------------------------------------------------------------------
(* analyze_audio *)

(* A decoded clip, as librosa sees it: n samples in y, of which `speech`   *)
(* lie in the intervals librosa.effects.split returns; f0std is            *)
(* np.nanstd(f0) (NaN when every frame is NaN), yin_fails says librosa.yin *)
(* raises, rmsvar is np.var(rms).  mean_pitch and mean_energy are left out:*)
(* nothing downstream reads them.                                          *)
Clip(n, speech, f0std, yin_fails, rmsvar) ==
    [n |-> n, speech |-> speech, f0std |-> f0std, yin_fails |-> yin_fails,
     rmsvar |-> rmsvar]

\* duration = librosa.get_duration(y=y, sr=sr)
Duration(c) == R(c.n, SAMPLE_RATE)
\* total_speech = sum((e - s) / sr for s, e in intervals)
TotalSpeech(c) == R(c.speech, SAMPLE_RATE)

\* PauseRatio without the guard's else branch being 0
PauseRatioOneWhenEmpty(duration, total_speech) ==
    IF RGt(duration, Zero) THEN RDiv(RSub(duration, total_speech), duration)
    ELSE R(1, 1)

\* pause_ratio = (duration - total_speech) / duration if duration > 0 else 0
PauseRatio(duration, total_speech) ==
    IF RGt(duration, Zero) THEN RDiv(RSub(duration, total_speech), duration)
    ELSE Zero

\* "speech_ratio": total_speech / duration if duration > 0 else 0
SpeechRatio(duration, total_speech) ==
    IF RGt(duration, Zero) THEN RDiv(total_speech, duration) ELSE Zero

\* try: pitch_var = float(np.nanstd(f0))  except Exception: pitch_var = 0.0
PitchVar(c) == IF c.yin_fails THEN Zero ELSE c.f0std

Metrics(c) ==
    [duration_sec |-> Duration(c),
     speech_ratio |-> SpeechRatio(Duration(c), TotalSpeech(c)),
     pause_ratio |-> PauseRatio(Duration(c), TotalSpeech(c)),
     pitch_variation |-> PitchVar(c),
     energy_variation |-> c.rmsvar]

\* return {**metrics, **rate_suspicion(metrics)}
analyze_audio(c) ==
    LET m == Metrics(c)
        s == rate_suspicion(m)
    IN  [duration_sec |-> m.duration_sec,
         speech_ratio |-> m.speech_ratio,
         pause_ratio |-> m.pause_ratio,
         pitch_variation |-> m.pitch_variation,
         energy_variation |-> m.energy_variation,
         suspicion |-> s.suspicion,
         flags |-> s.flags]

----------------------------------------------------------------------------
(* compare_wavs *)

\* embeddings the encoder may return; (0,0) is a zero-norm embedding
Vectors == {<<0, 0>>, <<1, 0>>, <<0, 1>>, <<3, 4>>}

Dot(a, b) == a[1] * b[1] + a[2] * b[2]
\* np.linalg.norm of a vector whose norm is an integer
Norm(a) == CHOOSE r \in 0..(Dot(a, a)) : r * r = Dot(a, a)

\* float(np.dot(emb1, emb2) / (np.linalg.norm(emb1) * np.linalg.norm(emb2)))
\* numpy's 0/0 is nan (a RuntimeWarning, no exception)
compare_wavs(e1, e2) ==
    IF Norm(e1) * Norm(e2) = 0 THEN NaN
    ELSE R(Dot(e1, e2), Norm(e1) * Norm(e2))

----------------------------------------------------------------------------
(* save_upload *)

\* ChunkStep with the chunk written before the size check
ChunkStepWriteFirst(sz, wr, chunk) ==
    LET total == sz + chunk
    IN  IF total > MaxUploadBytes
        THEN [size |-> total, written |-> wr + chunk,
              raised |-> "413 File too large (>20MB)"]
        ELSE [size |-> total, written |-> wr + chunk, raised |-> "none"]

\* one pass of the while loop after a non-empty read:
\* size += len(chunk); if size > MAX: (remove, raise 413); tmp.write(chunk)
ChunkStep(sz, wr, chunk) ==
    LET total == sz + chunk
    IN  IF total > MaxUploadBytes
        THEN [size |-> total, written |-> wr,
              raised |-> "413 File too large (>20MB)"]
        ELSE [size |-> total, written |-> wr + chunk, raised |-> "none"]

\* except Exception: tmp.close(); os.remove(tmp.name); raise HTTPException(400)
\* It catches every Exception raised in the try block, the HTTPException(413)
\* of the size check included.  It is entered with the files d on disk;
\* os.remove of a missing file raises FileNotFoundError out of the handler.
ExceptHandler(d, f) ==
    IF f \in d
    THEN [disk |-> d \ {f}, err |-> "400 Failed to save upload"]
    ELSE [disk |-> d, err |-> "FileNotFoundError"]

----------------------------------------------------------------------------
(* convert_to_wav *)

\* subprocess.run(cmd, check=True, timeout=SUBPROCESS_TIMEOUT): the child
\* has exited when run returns or raises CalledProcessError; on timeout run
\* kills it and waits before raising TimeoutExpired
ProcAfterRun(outcome) == IF outcome = "timeout" THEN "killed" ELSE "exited"

\* ConvertError without the except subprocess.TimeoutExpired clause's raise
ConvertErrorNoTimeout(outcome) ==
    CASE outcome = "failed" -> "400 ffmpeg failed"
      [] OTHER              -> "none"

\* the two except clauses of convert_to_wav
ConvertError(outcome) ==
    CASE outcome = "timeout" -> "408 Audio conversion timed out"
      [] outcome = "failed"  -> "400 ffmpeg failed"
      [] OTHER               -> "none"

----------------------------------------------------------------------------
(* compare: the body of the try block, call after call *)

\* AfterCall with every exception swallowed: the next call is made anyway
AfterCallSwallow(call, i, e) ==
    CASE call = "save_upload" /\ i = 1    -> [pc |-> "save_upload", cur |-> 2]
      [] call = "save_upload" /\ i = 2    -> [pc |-> "convert_to_wav", cur |-> 1]
      [] call = "convert_to_wav" /\ i = 1 -> [pc |-> "convert_to_wav", cur |-> 2]
      [] call = "convert_to_wav" /\ i = 2 -> [pc |-> "compare_wavs", cur |-> 1]
      [] call = "compare_wavs"            -> [pc |-> "analyze_audio", cur |-> 1]
      [] call = "analyze_audio" /\ i = 1  -> [pc |-> "analyze_audio", cur |-> 2]
      [] call = "analyze_audio" /\ i = 2  -> [pc |-> "respond", cur |-> 2]
      [] OTHER                            -> [pc |-> "finally", cur |-> i]

\* where compare() continues after `call` on sample i ended with exception e
\* ("none": it returned): an exception leaves the try block for finally
AfterCall(call, i, e) ==
    IF e # "none" THEN [pc |-> "finally", cur |-> i]
    ELSE CASE call = "save_upload" /\ i = 1    -> [pc |-> "save_upload", cur |-> 2]
           [] call = "save_upload" /\ i = 2    -> [pc |-> "convert_to_wav", cur |-> 1]
           [] call = "convert_to_wav" /\ i = 1 -> [pc |-> "convert_to_wav", cur |-> 2]
           [] call = "convert_to_wav" /\ i = 2 -> [pc |-> "compare_wavs", cur |-> 1]
           [] call = "compare_wavs"            -> [pc |-> "analyze_audio", cur |-> 1]
           [] call = "analyze_audio" /\ i = 1  -> [pc |-> "analyze_audio", cur |-> 2]
           [] call = "analyze_audio" /\ i = 2  -> [pc |-> "respond", cur |-> 2]
           [] OTHER                            -> [pc |-> "finally", cur |-> i]

\* for f in [p1, p2, w1, w2]: if f and os.path.exists(f): os.remove(f)
Cleanup(d, files) == d \ (files \ {NoFile})

----------------------------------------------------------------------------
(* Inputs *)

UploadLens == {0, 1, MaxUploadBytes, MaxUploadBytes + 1,
               MaxUploadBytes + ExtraChunks * ReadChunkBytes}

SpeechCounts == {0, (2 * ClipSamples) \div 5 - 1, (2 * ClipSamples) \div 5,
                 ClipSamples \div 2, (19 * ClipSamples) \div 20,
                 (19 * ClipSamples) \div 20 + 1}
PitchStds == {R(5, 1), R(99, 10), R(10, 1), R(40, 1), NaN}
RmsVars == {R(1, 1000000), R(1, 100000), R(1, 100)}

AllClips ==
    {Clip(ClipSamples, sp, f, yf, e) :
        sp \in SpeechCounts, f \in PitchStds, yf \in BOOLEAN, e \in RmsVars}
    \cup {Clip(0, 0, f, yf, e) : f \in PitchStds, yf \in BOOLEAN, e \in RmsVars}

\* the clips the request pipeline is run on
PipelineClips ==
    {Clip(0, 0, NaN, FALSE, R(1, 1000000)),
     Clip(ClipSamples, ClipSamples \div 2, R(40, 1), FALSE, R(1, 100)),
     Clip(ClipSamples, ClipSamples, R(5, 1), FALSE, R(1, 1000000))}

----------------------------------------------------------------------------
(* The state machine *)

Init ==
    /\ req = 0
    /\ pc = "idle"
    /\ cur = 1
    /\ upload = <<0, 0>>
    /\ pos = 0
    /\ size = 0
    /\ written = 0
    /\ tmp = NoFile
    /\ out = NoFile
    /\ p1 = NoFile /\ p2 = NoFile /\ w1 = NoFile /\ w2 = NoFile
    /\ disk = {}
    /\ proc = "none"
    /\ decode = "none"
    /\ err = "none"
    /\ emb = << >>
    /\ y = << >>
    /\ score = << >>
    /\ analysis1 = << >>
    /\ analysis2 = << >>
    /\ response = "none"
    /\ steps = << >>

Goto(next) == pc' = next.pc /\ cur' = next.cur

\* a POST /compare arrives: p1 = p2 = w1 = w2 = None
Start ==
    /\ pc \in {"idle", "done"}
    /\ req < MaxRequests
    /\ req' = req + 1
    /\ \E l1 \in UploadLens, l2 \in UploadLens : upload' = <<l1, l2>>
    /\ pc' = "save_upload" /\ cur' = 1
    /\ pos' = 0 /\ size' = 0 /\ written' = 0
    /\ tmp' = NoFile /\ out' = NoFile
    /\ p1' = NoFile /\ p2' = NoFile /\ w1' = NoFile /\ w2' = NoFile
    /\ proc' = "none" /\ decode' = "none" /\ err' = "none"
    /\ emb' = << >> /\ y' = << >> /\ score' = << >>
    /\ analysis1' = << >> /\ analysis2' = << >>
    /\ response' = "none" /\ steps' = << >>
    /\ UNCHANGED disk

\* save_upload: tmp = NamedTemporaryFile(delete=False); size = 0
SaveOpen ==
    /\ pc = "save_upload"
    /\ tmp' = File(req, IF cur = 1 THEN "p1" ELSE "p2")
    /\ disk' = disk \cup {tmp'}
    /\ pos' = 0 /\ size' = 0 /\ written' = 0
    /\ pc' = "read"
    /\ steps' = Append(steps, IF cur = 1 THEN "save1" ELSE "save2")
    /\ UNCHANGED <<req, cur, upload, out, p1, p2, w1, w2, proc, decode, err, emb, y,
                   score, analysis1, analysis2, response>>

\* save_upload: one pass of the loop with a non-empty chunk
ReadChunk ==
    /\ pc = "read"
    /\ pos < upload[cur]
    /\ LET chunk == Min(ReadChunkBytes, upload[cur] - pos)
           st == ChunkStep(size, written, chunk)
           h == ExceptHandler(disk \ {tmp}, tmp)
       IN  /\ pos' = pos + chunk
           /\ size' = st.size
           /\ written' = st.written
           /\ IF st.raised # "none"
              THEN /\ disk' = h.disk
                   /\ err' = h.err
                   /\ Goto(AfterCall("save_upload", cur, h.err))
              ELSE UNCHANGED <<disk, err, pc, cur>>
    /\ UNCHANGED <<req, upload, tmp, out, p1, p2, w1, w2, proc, decode, emb, y, score,
                   analysis1, analysis2, response, steps>>

\* save_upload: upload.file.read or tmp.write raises
SaveIOError ==
    /\ pc = "read"
    /\ LET h == ExceptHandler(disk, tmp)
       IN  /\ disk' = h.disk
           /\ err' = h.err
           /\ Goto(AfterCall("save_upload", cur, h.err))
    /\ UNCHANGED <<req, upload, pos, size, written, tmp, out, p1, p2, w1, w2,
                   proc, decode, emb, y, score, analysis1, analysis2, response, steps>>

\* save_upload: empty chunk, break, flush, close, return tmp.name
SaveReturn ==
    /\ pc = "read"
    /\ pos = upload[cur]
    /\ IF cur = 1 THEN p1' = tmp /\ UNCHANGED p2
                  ELSE p2' = tmp /\ UNCHANGED p1
    /\ Goto(AfterCall("save_upload", cur, "none"))
    /\ UNCHANGED <<req, upload, pos, size, written, tmp, out, w1, w2, disk,
                   proc, decode, err, emb, y, score, analysis1, analysis2, response, steps>>

\* convert_to_wav: out = NamedTemporaryFile(delete=False); ffmpeg is started
ConvertStart ==
    /\ pc = "convert_to_wav"
    /\ out' = File(req, IF cur = 1 THEN "w1" ELSE "w2")
    /\ disk' = disk \cup {out'}
    /\ proc' = "running"
    /\ pc' = "ffmpeg"
    /\ steps' = Append(steps, IF cur = 1 THEN "conv1" ELSE "conv2")
    /\ UNCHANGED <<req, cur, upload, pos, size, written, tmp, p1, p2, w1, w2,
                   decode, err, emb, y, score, analysis1, analysis2, response>>

\* convert_to_wav: subprocess.run returns or raises; ffmpeg cannot decode
\* an empty file
ConvertFinish ==
    /\ pc = "ffmpeg"
    /\ \E outcome \in {"ok", "timeout", "failed"} :
        /\ outcome = "ok" => upload[cur] > 0
        /\ decode' = outcome
        /\ proc' = ProcAfterRun(outcome)
        /\ err' = ConvertError(outcome)
        /\ IF ConvertError(outcome) = "none"
           THEN IF cur = 1 THEN w1' = out /\ UNCHANGED w2
                           ELSE w2' = out /\ UNCHANGED w1
           ELSE UNCHANGED <<w1, w2>>
        /\ Goto(AfterCall("convert_to_wav", cur, ConvertError(outcome)))
    /\ UNCHANGED <<req, upload, pos, size, written, tmp, out, p1, p2, disk,
                   emb, y, score, analysis1, analysis2, response, steps>>

\* score = compare_wavs(w1, w2)
Score ==
    /\ pc = "compare_wavs"
    /\ steps' = Append(steps, "score")
    /\ \/ \E e1 \in Vectors, e2 \in Vectors :
            /\ emb' = <<e1, e2>>
            /\ score' = <<compare_wavs(e1, e2)>>
            /\ Goto(AfterCall("compare_wavs", cur, "none"))
            /\ UNCHANGED err
       \/ \* preprocess_wav or the encoder raises
          /\ err' = "Exception"
          /\ Goto(AfterCall("compare_wavs", cur, "Exception"))
          /\ UNCHANGED <<emb, score>>
    /\ UNCHANGED <<req, upload, pos, size, written, tmp, out, p1, p2, w1, w2,
                   disk, proc, decode, y, analysis1, analysis2, response>>

\* analysis1 = analyze_audio(w1); analysis2 = analyze_audio(w2)
Analyze ==
    /\ pc = "analyze_audio"
    /\ steps' = Append(steps, IF cur = 1 THEN "an1" ELSE "an2")
    /\ \/ \E c \in PipelineClips :
            /\ y' = <<c>>
            /\ IF cur = 1
               THEN analysis1' = <<analyze_audio(c)>> /\ UNCHANGED analysis2
               ELSE analysis2' = <<analyze_audio(c)>> /\ UNCHANGED analysis1
            /\ Goto(AfterCall("analyze_audio", cur, "none"))
            /\ UNCHANGED err
       \/ \* librosa.load raises
          /\ err' = "Exception"
          /\ Goto(AfterCall("analyze_audio", cur, "Exception"))
          /\ UNCHANGED <<y, analysis1, analysis2>>
    /\ UNCHANGED <<req, upload, pos, size, written, tmp, out, p1, p2, w1, w2,
                   disk, proc, decode, emb, score, response>>

HasNaN ==
    \/ score[1].nan
    \/ analysis1[1].pitch_variation.nan
    \/ analysis2[1].pitch_variation.nan

\* return JSONResponse({...}).  The JSON encoder is not part of the
\* repository: given a NaN it either writes it out or raises ValueError.
Respond ==
    /\ pc = "respond"
    /\ steps' = Append(steps, "assemble")
    /\ \/ response' = "json" /\ UNCHANGED err
       \/ HasNaN /\ err' = "ValueError" /\ UNCHANGED response
    /\ Goto(AfterCall("respond", cur, "none"))
    /\ UNCHANGED <<req, upload, pos, size, written, tmp, out, p1, p2, w1, w2,
                   disk, proc, decode, emb, y, score, analysis1, analysis2>>

\* the finally block
Finally ==
    /\ pc = "finally"
    /\ disk' = Cleanup(disk, {p1, p2, w1, w2})
    /\ steps' = Append(steps, "cleanup")
    /\ pc' = "done"
    /\ UNCHANGED <<req, cur, upload, pos, size, written, tmp, out, p1, p2, w1,
                   w2, proc, decode, err, emb, y, score, analysis1, analysis2, response>>

Next ==
    \/ Start
    \/ SaveOpen
    \/ ReadChunk
    \/ SaveIOError
    \/ SaveReturn
    \/ ConvertStart
    \/ ConvertFinish
    \/ Score
    \/ Analyze
    \/ Respond
    \/ Finally

Spec == Init /\ [][Next]_vars

(* analyze_audio alone, on every clip of AllClips *)
AnalyzeClip ==
    /\ pc = "idle"
    /\ \E c \in AllClips :
        /\ y' = <<c>>
        /\ analysis1' = <<analyze_audio(c)>>
    /\ UNCHANGED <<req, pc, cur, upload, pos, size, written, tmp, out, p1, p2,
                   w1, w2, disk, proc, decode, err, emb, score, analysis2,
                   response, steps>>

NextAnalyze == AnalyzeClip

SpecAnalyze == Init /\ [][NextAnalyze]_vars

----------------------------------------------------------------------------
(* Properties *)

Range(sq) == {sq[i] : i \in DOMAIN sq}
Analyses == Range(analysis1) \cup Range(analysis2)
\* temporary files the current request created that are still on disk
Leftover == {f \in disk : f.req = req}
Finished == pc = "done"

\* C1: once a request has finished, no temporary file created for it (p1,
\* p2, or a converted output, also one whose conversion failed) is on disk.
C1_NoLeftoverFiles == Finished => Leftover = {}

\* C2: when an upload's running total exceeds the maximum, the request ends
\* with the 413 size-limit error and convert_to_wav is never invoked.
C2_OversizeIs413 ==
    (size > MaxUploadBytes /\ pc \in {"finally", "done"})
        => /\ err = "413 File too large (>20MB)"
           /\ "conv1" \notin Range(steps)

\* C3: an upload of 0 bytes is never staged: the request fails with
\* EmptyInputError before any decode is attempted.
C3_EmptyRejected ==
    \A i \in 1..2 :
        (req > 0 /\ upload[i] = 0)
            => /\ (IF i = 1 THEN p1 ELSE p2) = NoFile
               /\ "conv1" \notin Range(steps)
               /\ Finished => err = "EmptyInputError"

\* C4: if a decode exceeds the timeout the request fails with the 408
\* conversion-timeout error, compare_wavs and analyze_audio are never
\* invoked, nothing is returned and no decode process is left running.
C4_TimeoutEndsRequest ==
    decode = "timeout"
        => /\ err = "408 Audio conversion timed out"
           /\ pc \in {"finally", "done"}
           /\ Range(steps) \cap {"score", "an1", "an2", "assemble"} = {}
           /\ score = << >> /\ analysis1 = << >> /\ analysis2 = << >>
           /\ response = "none"
           /\ proc # "running"

C4_Witness ==
    /\ Finished /\ decode = "timeout" /\ cur = 2
    /\ w1 # NoFile /\ err = "408 Audio conversion timed out"

\* C5: if either embedding has zero norm, scoring fails with
\* DegenerateEmbeddingError and no response carries a NaN similarity.
C5_ZeroNormRejected ==
    (emb # << >> /\ (Norm(emb[1]) = 0 \/ Norm(emb[2]) = 0))
        => /\ err = "DegenerateEmbeddingError"
           /\ score = << >>
           /\ response = "none"

\* C6: the bytes written to the staged file never exceed the maximum: the
\* chunk that crosses the limit is not written.
C6_WrittenWithinLimit == written <= MaxUploadBytes

C6_Witness ==
    /\ size > MaxUploadBytes
    /\ written = MaxUploadBytes
    /\ tmp \notin disk

\* C7: the suspicion level is Low for 0 flags, Medium for exactly 1 flag and
\* High for 2 or 3 flags, whichever rules raised them.
C7_LevelByFlagCount ==
    \A a \in Analyses :
        /\ Len(a.flags) = 0 => a.suspicion = "Low"
        /\ Len(a.flags) = 1 => a.suspicion = "Medium"
        /\ Len(a.flags) \in {2, 3} => a.suspicion = "High"
        /\ Len(a.flags) <= 3

C7_Witness ==
    \E a \in Range(analysis1) :
        /\ a.flags = <<FlagRatio, FlagPitch, FlagEnergy>>
        /\ a.suspicion = "High"

\* C8: the ratio flag is raised exactly when speech_ratio < 0.40 or > 0.95,
\* the pitch flag exactly when pitch_variation < 10, the energy flag exactly
\* when energy_variation < 1e-5 (all strict), each independently, and the
\* flags appear in the order ratio, pitch, energy.
C8_FlagRules ==
    \A a \in Analyses :
        LET sr == a.speech_ratio
            pv == a.pitch_variation
            ev == a.energy_variation
            ratio == 100 * sr.num < 40 * sr.den \/ 100 * sr.num > 95 * sr.den
            pitch == ~pv.nan /\ pv.num < 10 * pv.den
            energy == 100000 * ev.num < ev.den
        IN  a.flags = (IF ratio THEN <<FlagRatio>> ELSE << >>)
                      \o (IF pitch THEN <<FlagPitch>> ELSE << >>)
                      \o (IF energy THEN <<FlagEnergy>> ELSE << >>)

\* the three boundary values together raise no flag
C8_Witness ==
    \E a \in Range(analysis1) :
        /\ a.speech_ratio = R(2, 5)
        /\ a.pitch_variation = R(10, 1)
        /\ a.energy_variation = R(1, 100000)
        /\ a.flags = << >>

\* C9: for duration > 0, speech_ratio = total_speech / duration, pause_ratio
\* = (duration - total_speech) / duration and the two sum to 1; for
\* duration = 0 both are exactly 0.
C9_RatiosSumToOne ==
    (y # << >> /\ analysis1 # << >> /\ pc = "idle")
        => LET c == y[1]
               a == analysis1[1]
           IN  IF c.n > 0
               THEN /\ a.speech_ratio = R(c.speech, c.n)
                    /\ a.pause_ratio = R(c.n - c.speech, c.n)
                    /\ RAdd(a.speech_ratio, a.pause_ratio) = One
               ELSE /\ a.speech_ratio = Zero
                    /\ a.pause_ratio = Zero

C9_Witness ==
    /\ y # << >> /\ analysis1 # << >> /\ pc = "idle"
    /\ y[1].n > 0 /\ y[1].speech > 0 /\ y[1].speech < y[1].n
    /\ RAdd(analysis1[1].speech_ratio, analysis1[1].pause_ratio) = One

Canonical == <<"save1", "save2", "conv1", "conv2", "score", "an1", "an2",
               "assemble">>
IsPrefix(a, b) == Len(a) <= Len(b) /\ a = SubSeq(b, 1, Len(a))
\* the calls made, without the closing cleanup
Calls == IF steps # << >> /\ steps[Len(steps)] = "cleanup"
         THEN SubSeq(steps, 1, Len(steps) - 1) ELSE steps

C10_Order ==
    /\ IsPrefix(Calls, Canonical)
    /\ "conv1" \in Range(steps) => p1 # NoFile /\ p2 # NoFile
    /\ "score" \in Range(steps) => w1 # NoFile /\ w2 # NoFile
    /\ "assemble" \in Range(steps)
          => score # << >> /\ analysis1 # << >> /\ analysis2 # << >>
    /\ response = "json" => "assemble" \in Range(steps) /\ err = "none"
    /\ Finished => steps[Len(steps)] = "cleanup"

\* after a failure the only step still taken is the cleanup
C10_FailureStep ==
    (err # "none" /\ ~Finished) => steps' \in {steps, Append(steps, "cleanup")}

\* C10: the calls of one request are made in the order save1, save2, conv1,
\* conv2, score, an1, an2, assemble, cleanup; decoding starts only with both
\* uploads staged, scoring only with both samples converted, the result is
\* assembled only with the score and both analyses, and a failure goes
\* straight to the cleanup.
C10_StepOrder == []C10_Order /\ [][C10_FailureStep]_vars

C10_Witness ==
    /\ Finished
    /\ response = "json"
    /\ steps = Canonical \o <<"cleanup">>

====
